---- MODULE Spec2Model ----
(***************************************************************************)
(* VLCNetPlanner: the placement optimizer (utils/optimization.py), the     *)
(* coverage analyzer (utils/coverage_analysis.py) and the parts of the     *)
(* host (main.py) that call them.                                          *)
(*                                                                         *)
(* Numbers.  The program computes in IEEE doubles; the model computes in   *)
(* fixed point:                                                            *)
(*   lengths      decimetres (0.1 m, the analyzer's grid resolution)       *)
(*   weights      tenths                                                   *)
(*   scores       thousandths ("milli")                                    *)
(*   random draws sixteenths of the unit interval                          *)
(* Divisions truncate toward zero (Trunc).                                 *)
(***************************************************************************)
EXTENDS Integers, Sequences, FiniteSets, TLC

VARIABLES
    objs,                 \* the component dicts, by address (1..Len(objs))
    vlc_components,       \* st.session_state.vlc_components: addresses
    floor_plan,           \* the floor plan handed to the core
    optimization_params,  \* the config argument of optimize_placement
    rng,                  \* state of the process-global numpy generator
    refiner,              \* what scipy's SLSQP does with its start point
    pc,                   \* position of the "Optimize Placement" handler
    components,           \* optimize_placement's argument: addresses
    pso,                  \* the PSOptimizer object
    iter,                 \* updates done by the loop of optimize_placement
    result,               \* the OptimizeResult of minimize
    returned,             \* the list optimize_placement returned
    pre_objs,             \* objs as they were when the call or the drag started
    call_log,             \* one entry per finished call: its inputs and output
    analysis,             \* what the last analyze_coverage call gave
    prev_analysis,        \* what the call before it gave
    selected_component,   \* st.session_state.selected_component (an id)
    evaluation,           \* a call of multi_objective_function: x, score
    self_components,      \* NetworkVisualizer's self.components: addresses
    component_history,    \* st.session_state.component_history: lists
    history_index         \* st.session_state.history_index

vars == <<objs, vlc_components, floor_plan, optimization_params, rng, refiner,
          pc, components, pso, iter, result, returned, pre_objs, call_log,
          analysis, prev_analysis, selected_component, evaluation,
          self_components, component_history, history_index>>

(***************************************************************************)
(* Bounds of the model.                                                    *)
(***************************************************************************)
\* points per axis of calculate_coverage_score's grid (the program uses 100)
GridSize == 4
\* largest max_iterations among the explicit configs
MaxIter == 2
\* calls of optimize_placement in one session
MaxCalls == 1

(***************************************************************************)
(* Program constants.                                                      *)
(***************************************************************************)
Infinity == 1000000000      \* float('inf')
MaxParticles == 20
DefaultMaxIterations == 100

(***************************************************************************)
(* Arithmetic helpers.                                                     *)
(***************************************************************************)
Min(a, b) == IF a <= b THEN a ELSE b
Max(a, b) == IF a >= b THEN a ELSE b
Abs(a) == IF a >= 0 THEN a ELSE -a

\* a / b for b > 0, truncated toward zero
Trunc(a, b) == IF a >= 0 THEN a \div b ELSE -((-a) \div b)

RECURSIVE SqrtSearch(_, _, _)
SqrtSearch(n, lo, hi) ==
    IF lo >= hi THEN lo
    ELSE LET mid == (lo + hi + 1) \div 2
         IN  IF mid * mid <= n THEN SqrtSearch(n, mid, hi)
             ELSE SqrtSearch(n, lo, mid - 1)

\* floor of the square root of n >= 0 (n < 2^30)
ISqrt(n) == SqrtSearch(n, 0, Min(n, 32767))

\* 10^6 * e^(-q) for whole q
ExpWhole == <<1000000, 367879, 135335, 49787, 18316, 6738, 2479, 912, 335,
              123, 45, 17, 6, 2, 1>>

\* np.exp(-x): x >= 0 in thousandths, result in thousandths
ExpNeg(x) ==
    LET q  == x \div 1000
        f  == x % 1000
        t2 == (f * f) \div 2000
        t3 == (t2 * f) \div 3000
        t4 == (t3 * f) \div 4000
        t5 == (t4 * f) \div 5000
        fr == 1000 - f + t2 - t3 + t4 - t5
    IN  IF q >= Len(ExpWhole) THEN 0
        ELSE ((ExpWhole[q + 1] \div 1000) * fr) \div 1000

\* squared distance of two points <<x, y>>
Dist2(p, q) == (p[1] - q[1]) * (p[1] - q[1]) + (p[2] - q[2]) * (p[2] - q[2])

\* np.linalg.norm(p - q) in millimetres, p and q in decimetres
DistMM(p, q) == ISqrt(10000 * Dist2(p, q))

RECURSIVE SumSeq(_)
SumSeq(s) == IF s = <<>> THEN 0 ELSE Head(s) + SumSeq(Tail(s))

(***************************************************************************)
(* The multi-objective scorer.  locations is a sequence of <<x, y>>.       *)
(***************************************************************************)
\* positions.reshape(-1, 2)
Reshape(x) == [i \in 1..(Len(x) \div 2) |-> <<x[2 * i - 1], x[2 * i]>>]

\* the Gaussian coverage summed over the locations at grid point (i, j) of
\* np.linspace(0, width, GridSize) x np.linspace(0, height, GridSize);
\* coordinates are kept multiplied by GridSize - 1
PointCoverage(fp, locations, i, j) ==
    LET g == GridSize - 1
        c(k) == LET dx == i * fp.width - g * locations[k][1]
                    dy == j * fp.height - g * locations[k][2]
                IN  ExpNeg((5 * (dx * dx + dy * dy)) \div (9 * g * g))
    IN  SumSeq([k \in 1..Len(locations) |-> c(k)])

calculate_coverage_score(fp, locations) ==
    LET covered == {ij \in (0..(GridSize - 1)) \X (0..(GridSize - 1)) :
                       PointCoverage(fp, locations, ij[1], ij[2]) > 200}
    IN  (1000 * Cardinality(covered)) \div (GridSize * GridSize)

\* the pairs i < j of 1..n
Pairs(n) == {ij \in (1..n) \X (1..n) : ij[1] < ij[2]}

RECURSIVE SumOver(_, _)
SumOver(S, f) ==
    IF S = {} THEN 0
    ELSE LET e == CHOOSE e \in S : TRUE IN f[e] + SumOver(S \ {e}, f)

calculate_interference_penalty(locations) ==
    IF Len(locations) < 2 THEN 0
    ELSE LET P == Pairs(Len(locations))
             pen == [ij \in P |->
                        LET distance == DistMM(locations[ij[1]], locations[ij[2]])
                        IN  IF distance < 2000 THEN ExpNeg(distance) ELSE 0]
         IN  SumOver(P, pen)

RECURSIVE MaxSeq(_)
MaxSeq(s) == IF Len(s) = 1 THEN s[1] ELSE Max(Head(s), MaxSeq(Tail(s)))

\* a power efficiency that reads where the input components stand
PowerEfficiencyFromInput(locations, comps) ==
    LET total_power == SumSeq([k \in 1..Len(comps) |->
                           IF comps[k].type = "Light Source"
                           THEN comps[k].properties.power ELSE 0])
    IN  IF total_power = 0 THEN 0
        ELSE Trunc(calculate_coverage_score(
                       [width  |-> MaxSeq([k \in 1..Len(comps) |-> comps[k].position[1]]) + 30,
                        height |-> MaxSeq([k \in 1..Len(comps) |-> comps[k].position[2]]) + 30],
                       locations),
                   total_power)

\* comps: the component records of the call, in order
calculate_power_efficiency(locations, comps) ==
    LET total_power == SumSeq([k \in 1..Len(comps) |->
                           IF comps[k].type = "Light Source"
                           THEN comps[k].properties.power ELSE 0])
    IN  IF total_power = 0 THEN 0
        ELSE LET area == calculate_coverage_score(
                            [width  |-> MaxSeq([k \in 1..Len(locations) |-> locations[k][1]]) + 30,
                             height |-> MaxSeq([k \in 1..Len(locations) |-> locations[k][2]]) + 30],
                            locations)
             IN  Trunc(area, total_power)

calculate_wall_penalty(locations, fp, margin) ==
    SumSeq([k \in 1..Len(locations) |->
        LET loc == locations[k]
            dist_to_walls == Min(Min(loc[1], fp.width - loc[1]),
                                 Min(loc[2], fp.height - loc[2]))
        IN  IF dist_to_walls < margin
            THEN 10 * (margin - dist_to_walls) * (margin - dist_to_walls)
            ELSE 0])

calculate_spacing_penalty(locations, min_distance) ==
    LET P == Pairs(Len(locations))
        pen == [ij \in P |->
                   LET distance == DistMM(locations[ij[1]], locations[ij[2]])
                   IN  IF distance < 100 * min_distance
                       THEN ((100 * min_distance - distance)
                             * (100 * min_distance - distance)) \div 1000
                       ELSE 0]
    IN  SumOver(P, pen)

\* a scorer with hidden state: its value drifts with the updates done
ScorerWithHiddenState(fp, comps, params, positions) ==
    LET locations == Reshape(positions)
    IN  Trunc(- params.coverage_weight * calculate_coverage_score(fp, locations)
              + params.interference_weight * calculate_interference_penalty(locations)
              + params.power_weight
                    * (1000 - calculate_power_efficiency(locations, comps)), 10)
        + 5 * calculate_wall_penalty(locations, fp, params.wall_margin)
        + 5 * calculate_spacing_penalty(locations, params.min_distance)
        + iter

multi_objective_function(fp, comps, params, positions) ==
    LET locations == Reshape(positions)
        coverage_score == calculate_coverage_score(fp, locations)
        interference_penalty == calculate_interference_penalty(locations)
        power_efficiency == calculate_power_efficiency(locations, comps)
        wall_penalty == calculate_wall_penalty(locations, fp, params.wall_margin)
        spacing_penalty == calculate_spacing_penalty(locations, params.min_distance)
    IN  Trunc(- params.coverage_weight * coverage_score
              + params.interference_weight * interference_penalty
              + params.power_weight * (1000 - power_efficiency), 10)
        + 5 * wall_penalty + 5 * spacing_penalty

(***************************************************************************)
(* The process-global generator behind np.random.uniform / np.random.rand: *)
(* a deterministic stream whose state every draw advances.  A draw is the  *)
(* state s, read as s/16 in [0, 1).                                        *)
(***************************************************************************)
RngNext(r) == [r EXCEPT !.s = (5 * r.s + r.c) % 16]

RECURSIVE RngSkip(_, _)
RngSkip(r, k) == IF k = 0 THEN r ELSE RngSkip(RngNext(r), k - 1)

\* the k-th draw (k >= 1) taken from state r
DrawAt(r, k) == RngSkip(r, k - 1).s

\* low + (high - low) * u, as np.random.uniform computes it
Uniform(low, high, u) == low + Trunc((high - low) * u, 16)

\* no clamping at all
NoClip(v, low, high) == v

\* np.clip(v, low, high) = minimum(maximum(v, low), high)
Clip(v, low, high) == Min(Max(v, low), high)

(***************************************************************************)
(* optimize_placement: config, bounds, PSO, refiner, write-back.           *)
(***************************************************************************)
DefaultParams ==
    [coverage_weight |-> 4, interference_weight |-> 3, power_weight |-> 3,
     min_distance |-> 20, wall_margin |-> 5,
     max_iterations |-> DefaultMaxIterations, none |-> FALSE]

\* the config argument None
NoneParams == [DefaultParams EXCEPT !.none = TRUE]

\* "if optimization_params is None: optimization_params = {...}"
EffectiveParams(p) == IF p.none THEN DefaultParams ELSE p

\* bounds whose upper ends lie wall_margin beyond the walls
BoundsOutward(fp, params, n) ==
    [d \in 1..(2 * n) |->
        IF d % 2 = 1
        THEN <<params.wall_margin, fp.width + params.wall_margin>>
        ELSE <<params.wall_margin, fp.height + params.wall_margin>>]

\* one (low, high) pair per coordinate: x then y, for each component
Bounds(fp, params, n) ==
    [d \in 1..(2 * n) |->
        IF d % 2 = 1
        THEN <<params.wall_margin, fp.width - params.wall_margin>>
        ELSE <<params.wall_margin, fp.height - params.wall_margin>>]

NParticles(n) == Min(MaxParticles, 4 * n)

\* PSOptimizer.__init__, drawing from generator state r
PSOptimizer_init(n_particles, dimensions, bounds, r) ==
    LET positions == [p \in 1..n_particles |-> [d \in 1..dimensions |->
                         Uniform(bounds[d][1], bounds[d][2],
                                 DrawAt(r, (p - 1) * dimensions + d))]]
    IN  [n_particles |-> n_particles,
         dimensions |-> dimensions,
         bounds |-> bounds,
         positions |-> positions,
         velocities |-> [p \in 1..n_particles |-> [d \in 1..dimensions |-> 0]],
         best_positions |-> positions,
         best_scores |-> [p \in 1..n_particles |-> Infinity],
         has_global_best |-> FALSE,          \* global_best_position is not None
         global_best_position |-> <<>>,
         global_best_score |-> Infinity]

\* an index that ignores the scores
ArgFirst(scores) == 1

\* np.argmin: the first index of the least score
ArgMin(scores) ==
    CHOOSE i \in 1..Len(scores) :
        /\ \A j \in 1..Len(scores) : scores[i] <= scores[j]
        /\ \A j \in 1..(i - 1) : scores[j] > scores[i]

\* [objective_func(p) for p in self.positions]
RECURSIVE ScoreAll(_, _, _, _, _)
ScoreAll(positions, k, fp, comps, params) ==
    IF k = 0 THEN <<>>
    ELSE Append(ScoreAll(positions, k - 1, fp, comps, params),
                multi_objective_function(fp, comps, params, positions[k]))

\* an update whose personal bests are views of the moving positions
UpdateWithAliasedBests(o, scores, r1, r2) ==
    LET P == 1..o.n_particles
        D == 1..o.dimensions
        best_positions == [p \in P |-> IF scores[p] < o.best_scores[p]
                                       THEN o.positions[p]
                                       ELSE o.best_positions[p]]
        best_scores == [p \in P |-> IF scores[p] < o.best_scores[p]
                                    THEN scores[p] ELSE o.best_scores[p]]
        min_score_idx == ArgMin(scores)
        better == scores[min_score_idx] < o.global_best_score
        global_best_position == IF better THEN o.positions[min_score_idx]
                                ELSE o.global_best_position
        velocities == [p \in P |-> [d \in D |->
                          Trunc(112 * o.velocities[p][d]
                                + 15 * r1 * (best_positions[p][d] - o.positions[p][d])
                                + 15 * r2 * (global_best_position[d] - o.positions[p][d]),
                                160)]]
        positions == [p \in P |-> [d \in D |->
                         Clip(o.positions[p][d] + velocities[p][d],
                              o.bounds[d][1], o.bounds[d][2])]]
    IN  [o EXCEPT !.positions = positions,
                  !.velocities = velocities,
                  !.best_positions = [p \in P |-> IF scores[p] < o.best_scores[p]
                                                  THEN positions[p]
                                                  ELSE o.best_positions[p]],
                  !.best_scores = best_scores,
                  !.has_global_best = TRUE,
                  !.global_best_position = global_best_position,
                  !.global_best_score = IF better THEN scores[min_score_idx]
                                        ELSE o.global_best_score]

\* the part of PSOptimizer.update after the scores are known
UpdateWith(o, scores, r1, r2) ==
    LET P == 1..o.n_particles
        D == 1..o.dimensions
        best_positions == [p \in P |-> IF scores[p] < o.best_scores[p]
                                       THEN o.positions[p]
                                       ELSE o.best_positions[p]]
        best_scores == [p \in P |-> IF scores[p] < o.best_scores[p]
                                    THEN scores[p] ELSE o.best_scores[p]]
        min_score_idx == ArgMin(scores)
        better == scores[min_score_idx] < o.global_best_score
        global_best_score == IF better THEN scores[min_score_idx]
                             ELSE o.global_best_score
        global_best_position == IF better THEN o.positions[min_score_idx]
                                ELSE o.global_best_position
        velocities == [p \in P |-> [d \in D |->
                          Trunc(112 * o.velocities[p][d]
                                + 15 * r1 * (best_positions[p][d] - o.positions[p][d])
                                + 15 * r2 * (global_best_position[d] - o.positions[p][d]),
                                160)]]
        positions == [p \in P |-> [d \in D |->
                         Clip(o.positions[p][d] + velocities[p][d],
                              o.bounds[d][1], o.bounds[d][2])]]
    IN  [o EXCEPT !.positions = positions,
                  !.velocities = velocities,
                  !.best_positions = best_positions,
                  !.best_scores = best_scores,
                  !.has_global_best = TRUE,
                  !.global_best_position = global_best_position,
                  !.global_best_score = global_best_score]

\* PSOptimizer.update with w = 0.7 (112/160), c1 = c2 = 1.5; r1, r2 are the
\* next two draws of generator state r
PSOptimizer_update(o, fp, comps, params, r) ==
    UpdateWith(o, ScoreAll(o.positions, o.n_particles, fp, comps, params),
               DrawAt(r, 1), DrawAt(r, 2))

\* minimize(...) raises: the start point is None, or a lower bound exceeds
\* its upper bound
MinimizeRaises(o, bounds) ==
    \/ ~o.has_global_best
    \/ \E d \in 1..Len(bounds) : bounds[d][1] > bounds[d][2]

\* minimize(f, x0, method='SLSQP', bounds=bounds): SLSQP is a library; what it
\* makes of x0 is an input of the model, rf = [step, success]: the iterate it
\* stops at is x0 moved by rf.step along (+, -, +, -, ...), kept within bounds
Minimize(x0, bounds, rf) ==
    [x |-> [d \in 1..Len(x0) |->
               Clip(x0[d] + (IF d % 2 = 1 THEN rf.step ELSE - rf.step),
                    bounds[d][1], bounds[d][2])],
     success |-> rf.success]

\* a write-back that numbers the returned components by list index
UpdatePositionsRenumber(o, comps, x) ==
    [a \in 1..Len(o) |->
        IF \E i \in 1..Len(comps) : comps[i] = a
        THEN LET i == CHOOSE i \in 1..Len(comps) : comps[i] = a
             IN  [o[a] EXCEPT !.position = Reshape(x)[i], !.id = i - 1]
        ELSE o[a]]

\* "Update component positions": the loop over optimized_components, a
\* shallow copy of components, so the dicts assigned to are the caller's
UpdatePositions(o, comps, x) ==
    [a \in 1..Len(o) |->
        IF \E i \in 1..Len(comps) : comps[i] = a
        THEN LET i == CHOOSE i \in 1..Len(comps) : comps[i] = a
             IN  [o[a] EXCEPT !.position = Reshape(x)[i]]
        ELSE o[a]]

(***************************************************************************)
(* The host's session (main.py) and the inputs of the model.               *)
(***************************************************************************)
\* VLCComponentManager._get_default_properties
DefaultProperties(type) ==
    IF type = "Light Source"
    THEN [power |-> 20, beam_angle |-> 120, wavelength |-> 550,
          coverage_radius |-> 30]
    ELSE [sensitivity |-> -30, fov |-> 60, active_area |-> 1]

Component(type, id, position, floor_level) ==
    [type |-> type, id |-> id, position |-> position,
     properties |-> DefaultProperties(type), floor_level |-> floor_level]

\* component lists a session can hold after adds, drags and floor edits
Sessions ==
    { <<>>,
      <<Component("Light Source", 0, <<20, 15>>, 0)>>,
      <<Component("Receiver", 0, <<5, 5>>, 0)>>,
      <<Component("Light Source", 0, <<10, 15>>, 0),
        Component("Light Source", 1, <<20, 15>>, 0)>>,
      <<Component("Receiver", 0, <<10, 10>>, 1),
        Component("Light Source", 1, <<20, 20>>, 0),
        Component("Receiver", 2, <<30, 10>>, 0)>> }

FloorPlans == { [width |-> 80, height |-> 60], [width |-> 40, height |-> 30] }

Params(cw, iw, pw, md, wm, mi) ==
    [coverage_weight |-> cw, interference_weight |-> iw, power_weight |-> pw,
     min_distance |-> md, wall_margin |-> wm, max_iterations |-> mi,
     none |-> FALSE]

ValidParamSets ==
    {Params(4, 3, 3, 20, 5, mi) : mi \in 1..MaxIter}
        \cup {Params(10, 3, 0, 20, 5, MaxIter), Params(4, 3, 3, 20, 25, 1)}

InvalidParamSets ==
    {Params(-4, 3, 3, 20, 5, 1), Params(4, 3, 3, 20, -5, 1),
     Params(4, 3, 3, 0, 5, 1), Params(4, 3, 3, 20, 5, 0)}

\* what OptimizationConfig's constructor is specified to accept
ValidParams(p) ==
    /\ p.coverage_weight >= 0 /\ p.interference_weight >= 0
    /\ p.power_weight >= 0 /\ p.wall_margin >= 0
    /\ p.min_distance > 0 /\ p.max_iterations > 0

Seeds == { [s |-> 1, c |-> 1], [s |-> 7, c |-> 1], [s |-> 8, c |-> 0] }

Refiners == { [step |-> 0, success |-> TRUE], [step |-> 3, success |-> TRUE],
              [step |-> -4, success |-> FALSE] }

NoResult == [x |-> <<>>, success |-> FALSE]

\* no analyze_coverage call yet
NoAnalysis == [status |-> "none"]

\* selected_component = None
None == -1

\* no call of the scorer recorded
NoEvaluation == [x |-> <<>>, score |-> 0]

\* the list comprehension of main.py: the components of the current floor (0)
CurrentComponents(o, list) ==
    SelectSeq(list, LAMBDA a : o[a].floor_level = 0)

\* comps' records, in order
Records(o, comps) == [i \in 1..Len(comps) |-> o[comps[i]]]

\* main.py's loop over the returned list: the first session component with
\* the returned component's id takes its position
RECURSIVE HostAssign(_, _, _)
HostAssign(o, list, rets) ==
    IF rets = <<>> THEN o
    ELSE LET opt_comp == o[Head(rets)]
             hits == {k \in 1..Len(list) : o[list[k]].id = opt_comp.id}
             first == CHOOSE k \in hits : \A j \in hits : k <= j
         IN  IF hits = {} THEN HostAssign(o, list, Tail(rets))
             ELSE HostAssign([o EXCEPT ![list[first]].position = opt_comp.position],
                             list, Tail(rets))

Init ==
    /\ objs \in Sessions
    /\ vlc_components = [a \in 1..Len(objs) |-> a]
    /\ floor_plan \in FloorPlans
    /\ \/ /\ optimization_params \in ValidParamSets \cup InvalidParamSets
          /\ rng \in Seeds
          /\ refiner \in Refiners
       \/ /\ optimization_params = NoneParams
          /\ rng = [s |-> 1, c |-> 1]
          /\ refiner = [step |-> 3, success |-> TRUE]
    /\ pc = "idle"
    /\ components = <<>>
    /\ pso = PSOptimizer_init(0, 0, <<>>, rng)
    /\ iter = 0
    /\ result = NoResult
    /\ returned = <<>>
    /\ pre_objs = objs
    /\ call_log = <<>>
    /\ analysis = NoAnalysis
    /\ prev_analysis = NoAnalysis
    /\ selected_component = None
    /\ evaluation = NoEvaluation
    /\ self_components = vlc_components
    /\ component_history = <<>>
    /\ history_index = -1

\* main.py: the "Optimize Placement" button, up to the PSO loop
OptimizeClick ==
    /\ pc = "idle"
    /\ Len(call_log) < MaxCalls
    /\ LET comps == CurrentComponents(objs, vlc_components)
           params == EffectiveParams(optimization_params)
           bounds == Bounds(floor_plan, params, Len(comps))
           n_particles == NParticles(Len(comps))
       IN  /\ components' = comps
           /\ pre_objs' = objs
           /\ pso' = PSOptimizer_init(n_particles, 2 * Len(comps), bounds, rng)
           /\ rng' = RngSkip(rng, n_particles * 2 * Len(comps))
           /\ pc' = IF params.max_iterations <= 0 THEN "refine" ELSE "loop"
    /\ iter' = 0
    /\ result' = NoResult
    /\ returned' = <<>>
    /\ UNCHANGED <<objs, vlc_components, floor_plan, optimization_params,
                   refiner, call_log, analysis, prev_analysis,
                   selected_component, evaluation>>
    /\ UNCHANGED <<self_components, component_history, history_index>>

\* a loop without the early stop
UpdateNoEarlyStop ==
    /\ pc = "loop"
    /\ pso.n_particles > 0
    /\ pso' = PSOptimizer_update(pso, floor_plan, Records(objs, components),
                                 EffectiveParams(optimization_params), rng)
    /\ rng' = RngSkip(rng, 2)
    /\ iter' = iter + 1
    /\ pc' = IF iter' >= EffectiveParams(optimization_params).max_iterations
             THEN "refine" ELSE "loop"
    /\ UNCHANGED <<objs, vlc_components, floor_plan, optimization_params,
                   refiner, components, result, returned, pre_objs, call_log,
                   analysis, prev_analysis, selected_component, evaluation>>
    /\ UNCHANGED <<self_components, component_history, history_index>>

\* one pass of "for _ in range(max_iterations)": update, then the early stop
Update ==
    /\ pc = "loop"
    /\ LET params == EffectiveParams(optimization_params)
       IN  IF pso.n_particles = 0
           THEN \* np.argmin of an empty array raises ValueError
                /\ pc' = "raised"
                /\ UNCHANGED <<pso, rng, iter>>
           ELSE /\ pso' = PSOptimizer_update(pso, floor_plan,
                              Records(objs, components), params, rng)
                /\ rng' = RngSkip(rng, 2)
                /\ iter' = iter + 1
                /\ pc' = IF \/ pso'.global_best_score < -950
                            \/ iter' >= params.max_iterations
                         THEN "refine" ELSE "loop"
    /\ UNCHANGED <<objs, vlc_components, floor_plan, optimization_params,
                   refiner, components, result, returned, pre_objs, call_log,
                   analysis, prev_analysis, selected_component, evaluation>>
    /\ UNCHANGED <<self_components, component_history, history_index>>

\* the local search, the write-back and the return of optimize_placement
Refine ==
    /\ pc = "refine"
    /\ IF MinimizeRaises(pso, pso.bounds)
       THEN /\ pc' = "raised"
            /\ UNCHANGED <<objs, result, returned, call_log>>
       ELSE /\ result' = Minimize(pso.global_best_position, pso.bounds, refiner)
            /\ objs' = UpdatePositions(objs, components, result'.x)
            /\ returned' = components
            /\ call_log' = Append(call_log,
                               [rng |-> rng, positions |-> Reshape(result'.x)])
            /\ pc' = "returned"
    /\ UNCHANGED <<vlc_components, floor_plan, optimization_params, rng,
                   refiner, components, pso, iter, pre_objs, analysis,
                   prev_analysis, selected_component, evaluation>>
    /\ UNCHANGED <<self_components, component_history, history_index>>

\* main.py: "Update only components on current floor"
HostUpdate ==
    /\ pc = "returned"
    /\ objs' = HostAssign(objs, vlc_components, returned)
    /\ pc' = "idle"
    /\ UNCHANGED <<vlc_components, floor_plan, optimization_params, rng,
                   refiner, components, pso, iter, result, returned, pre_objs,
                   call_log, analysis, prev_analysis, selected_component,
                   evaluation>>
    /\ UNCHANGED <<self_components, component_history, history_index>>

Next == OptimizeClick \/ Update \/ Refine \/ HostUpdate

Spec == Init /\ [][Next]_vars

(***************************************************************************)
(* optimize_placement as one function of its inputs, the generator state   *)
(* it starts from and the refiner: the steps of OptimizeClick, Update and  *)
(* Refine composed.                                                        *)
(***************************************************************************)
RECURSIVE PSOLoop(_, _, _, _, _, _)
PSOLoop(o, r, k, fp, comps, params) ==
    IF k >= params.max_iterations THEN o
    ELSE LET o2 == PSOptimizer_update(o, fp, comps, params, r)
         IN  IF o2.global_best_score < -950 THEN o2
             ELSE PSOLoop(o2, RngSkip(r, 2), k + 1, fp, comps, params)

RunOptimize(fp, comps, params, r, rf) ==
    LET n == Len(comps)
        bounds == Bounds(fp, params, n)
        o0 == PSOptimizer_init(NParticles(n), 2 * n, bounds, r)
        r0 == RngSkip(r, NParticles(n) * 2 * n)
    IN  IF n = 0 THEN [raised |-> TRUE, positions |-> <<>>]
        ELSE LET o == PSOLoop(o0, r0, 0, fp, comps, params)
             IN  IF MinimizeRaises(o, bounds)
                 THEN [raised |-> TRUE, positions |-> <<>>]
                 ELSE [raised |-> FALSE,
                       positions |-> Reshape(Minimize(o.global_best_position,
                                                      bounds, rf).x)]

(***************************************************************************)
(* Claims about optimize_placement.                                        *)
(***************************************************************************)
InFloor(pos, fp) ==
    /\ 0 <= pos[1] /\ pos[1] <= fp.width
    /\ 0 <= pos[2] /\ pos[2] <= fp.height

\* C1: for a valid floor plan, a non-empty component list and a valid config
\* (max_iterations >= 1), every position optimize_placement returns lies in
\* [0, width] x [0, height].
C1_BoundsPreserved ==
    (/\ pc = "returned"
     /\ returned # <<>>
     /\ ValidParams(EffectiveParams(optimization_params)))
        => \A i \in 1..Len(returned) : InFloor(objs[returned[i]].position, floor_plan)

\* a valid call has returned a position that the refiner's bounds stopped at
\* the upper wall margin
C1_Witness ==
    /\ pc = "returned"
    /\ returned # <<>>
    /\ ValidParams(EffectiveParams(optimization_params))
    /\ \E i \in 1..Len(returned) :
          /\ objs[returned[i]].position[1]
                 = floor_plan.width - EffectiveParams(optimization_params).wall_margin
          /\ objs[returned[i]].position # pre_objs[returned[i]].position

\* C2: optimize_placement does not mutate its input: after the call every
\* component of the caller's list has the position it had before the call.
C2_InputNotMutated ==
    pc = "returned" =>
        \A a \in 1..Len(objs) : objs[a].position = pre_objs[a].position

\* C5: the returned list has the length and order of the input list, its i-th
\* element has the id, type and properties of the i-th input component, and
\* no id is reused.
C5_IdentityCarried ==
    pc = "returned" =>
        /\ Len(returned) = Len(components)
        /\ \A i \in 1..Len(returned) :
              LET new == objs[returned[i]]
                  old == pre_objs[components[i]]
              IN  /\ new.id = old.id
                  /\ new.type = old.type
                  /\ new.properties = old.properties
        /\ \A i, j \in 1..Len(returned) :
              i # j => objs[returned[i]].id # objs[returned[j]].id

\* a call on two components whose ids are not their list indices has
\* returned, with a position changed
C5_Witness ==
    /\ pc = "returned"
    /\ Len(returned) = 2
    /\ objs[returned[1]].id = 1
    /\ objs[returned[1]].position # pre_objs[returned[1]].position

\* C6: if the refiner does not converge, the returned positions are exactly
\* the swarm's global_best_position.
C6_SwarmResultOnFailure ==
    (pc = "returned" /\ ~result.success) =>
        \A i \in 1..Len(returned) :
            objs[returned[i]].position = Reshape(pso.global_best_position)[i]

\* C7: a call with an invalid config is rejected before any particle is
\* created or scored, and produces no optimized list.
C7_InvalidConfigRejected ==
    ~ValidParams(EffectiveParams(optimization_params)) =>
        /\ pso.n_particles = 0
        /\ ~pso.has_global_best
        /\ pc # "returned"

\* C9: a call's result depends on its inputs alone, not on the random draws
\* consumed before it: a second call on the identical floor plan, components
\* and config, made next in the same process, returns the identical positions.
C9_Deterministic ==
    pc = "returned" =>
        LET again == RunOptimize(floor_plan, Records(pre_objs, components),
                                 EffectiveParams(optimization_params), rng, refiner)
        IN  /\ ~again.raised
            /\ again.positions = Reshape(result.x)

\* the scenario of C10: two light sources of one wavelength, 1 m apart,
\* min_distance = 2 m
SpacingScenario ==
    /\ Len(components) = 2
    /\ \A i \in 1..2 : pre_objs[components[i]].type = "Light Source"
    /\ pre_objs[components[1]].properties.wavelength
           = pre_objs[components[2]].properties.wavelength
    /\ Dist2(pre_objs[components[1]].position,
             pre_objs[components[2]].position) = 100
    /\ EffectiveParams(optimization_params).min_distance = 20
    /\ ValidParams(EffectiveParams(optimization_params))

\* C10: in that scenario the distance between the two returned positions is
\* at least the distance between the two input positions, for every run.
C10_SeparationNotReduced ==
    (pc = "returned" /\ SpacingScenario) =>
        Dist2(objs[returned[1]].position, objs[returned[2]].position)
            >= Dist2(pre_objs[components[1]].position,
                     pre_objs[components[2]].position)

\* the swarm has the particle count and vector length of its construction
SwarmShape ==
    /\ pso.n_particles = NParticles(Len(components))
    /\ pso.dimensions = 2 * Len(components)
    /\ Len(pso.positions) = pso.n_particles
    /\ \A p \in 1..pso.n_particles : Len(pso.positions[p]) = pso.dimensions

\* the claimed bound of coordinate d: x for odd d, y for even d
MarginBound(d) ==
    LET margin == EffectiveParams(optimization_params).wall_margin
    IN  IF d % 2 = 1 THEN <<margin, floor_plan.width - margin>>
        ELSE <<margin, floor_plan.height - margin>>

ParticlesWithin ==
    \A p \in 1..pso.n_particles : \A d \in 1..pso.dimensions :
        /\ MarginBound(d)[1] <= pso.positions[p][d]
        /\ pso.positions[p][d] <= MarginBound(d)[2]

\* C16 as stated: after construction and after every update every
\* coordinate of every particle lies within [wall_margin, extent -
\* wall_margin], and the numbers of particles and of components per
\* particle never change.
C16_ParticlesWithinBounds == SwarmShape /\ ParticlesWithin

\* C16 amended: the same, for the configs whose bounds are not empty
\* (2 * wall_margin <= width and 2 * wall_margin <= height).
C16_ParticlesWithinFeasibleBounds ==
    /\ SwarmShape
    /\ (\A d \in 1..2 : MarginBound(d)[1] <= MarginBound(d)[2]) => ParticlesWithin

\* an update has moved a coordinate by more than the width of its bound,
\* and the coordinate sits on the bound it was clamped to
C16_Witness ==
    /\ iter > 0
    /\ \A d \in 1..2 : MarginBound(d)[1] <= MarginBound(d)[2]
    /\ \E p \in 1..pso.n_particles : \E d \in 1..pso.dimensions :
          \/ /\ pso.velocities[p][d] > MarginBound(d)[2] - MarginBound(d)[1]
             /\ pso.positions[p][d] = MarginBound(d)[2]
          \/ /\ - pso.velocities[p][d] > MarginBound(d)[2] - MarginBound(d)[1]
             /\ pso.positions[p][d] = MarginBound(d)[1]

CurrentScores ==
    ScoreAll(pso.positions, pso.n_particles, floor_plan,
             Records(objs, components), EffectiveParams(optimization_params))

\* C18: an update replaces a personal best only by a strictly lower score
\* and the global best only by a strictly lower step minimum, so no best
\* score ever increases; and every stored best position is the position at
\* which the stored score was obtained.
C18_BestsOnlyImprove ==
    /\ [][(pc = "loop" /\ pso.n_particles > 0) =>
            LET scores == CurrentScores
                least == scores[ArgMin(scores)]
            IN  /\ \A p \in 1..pso.n_particles :
                      IF scores[p] < pso.best_scores[p]
                      THEN /\ pso'.best_scores[p] = scores[p]
                           /\ pso'.best_positions[p] = pso.positions[p]
                      ELSE /\ pso'.best_scores[p] = pso.best_scores[p]
                           /\ pso'.best_positions[p] = pso.best_positions[p]
                /\ IF least < pso.global_best_score
                   THEN /\ pso'.global_best_score = least
                        /\ pso'.global_best_position = pso.positions[ArgMin(scores)]
                   ELSE /\ pso'.global_best_score = pso.global_best_score
                        /\ pso'.global_best_position = pso.global_best_position
                /\ pso'.global_best_score <= pso.global_best_score]_vars
    /\ [](pso.has_global_best =>
            /\ \A p \in 1..pso.n_particles :
                  multi_objective_function(floor_plan, Records(objs, components),
                      EffectiveParams(optimization_params), pso.best_positions[p])
                      = pso.best_scores[p]
            /\ multi_objective_function(floor_plan, Records(objs, components),
                   EffectiveParams(optimization_params), pso.global_best_position)
                   = pso.global_best_score)

\* after a second update a personal best is a position the particle has
\* left, kept because the newer score was not lower
C18_Witness ==
    /\ iter >= 2
    /\ \E p \in 1..pso.n_particles :
          /\ pso.best_positions[p] # pso.positions[p]
          /\ pso.best_scores[p] < Infinity
    /\ \E p \in 1..pso.n_particles :
          pso.global_best_score < pso.best_scores[p]

RECURSIVE MinSeq(_)
MinSeq(s) == IF Len(s) = 1 THEN s[1] ELSE Min(Head(s), MinSeq(Tail(s)))

\* v is a vector within the swarm's per-dimension bounds
WithinSwarmBounds(v) ==
    /\ Len(v) = pso.dimensions
    /\ \A d \in 1..pso.dimensions :
          pso.bounds[d][1] <= v[d] /\ v[d] <= pso.bounds[d][2]

\* what C22 says of the swarm once an update is done
GlobalBestIsLeast ==
    /\ pso.has_global_best
    /\ pso.global_best_score = MinSeq(pso.best_scores)
    /\ pso.global_best_score < Infinity

\* C22 as stated: after every update global_best_score is the minimum of
\* the personal best_scores, which is the minimum score evaluated so far,
\* and global_best_position is set and lies within the per-dimension
\* bounds.
C22_GlobalBestFeasible ==
    /\ [](iter > 0 => GlobalBestIsLeast /\ WithinSwarmBounds(pso.global_best_position))
    /\ [][(pc = "loop" /\ pso.n_particles > 0) =>
            pso'.global_best_score
                = Min(pso.global_best_score, MinSeq(CurrentScores))]_vars

\* C22 amended: the same, the position being within the bounds for the
\* configs whose bounds are not empty.
C22_GlobalBestFeasibleInBounds ==
    /\ [](iter > 0 =>
            /\ GlobalBestIsLeast
            /\ (\A d \in 1..2 : MarginBound(d)[1] <= MarginBound(d)[2])
                   => WithinSwarmBounds(pso.global_best_position))
    /\ [][(pc = "loop" /\ pso.n_particles > 0) =>
            pso'.global_best_score
                = Min(pso.global_best_score, MinSeq(CurrentScores))]_vars

\* the refiner is about to start from a global best that an earlier update
\* found and that is lower than some particle's personal best
C22_Witness ==
    /\ pc = "refine"
    /\ iter >= 2
    /\ \A d \in 1..2 : MarginBound(d)[1] <= MarginBound(d)[2]
    /\ GlobalBestIsLeast
    /\ WithinSwarmBounds(pso.global_best_position)
    /\ \E p \in 1..pso.n_particles : pso.best_scores[p] > pso.global_best_score
    /\ \A p \in 1..pso.n_particles :
          pso.best_positions[p] = pso.global_best_position
              => pso.positions[p] # pso.global_best_position

(***************************************************************************)
(* analyze_coverage.  Powers are in thousandths of a watt; a map entry is  *)
(* a number or one of the three IEEE specials that numpy's division by     *)
(* zero produces.                                                          *)
(***************************************************************************)
PosInf == Infinity
NegInf == - Infinity
NaN == 2 * Infinity

IsNum(a) == a # PosInf /\ a # NegInf /\ a # NaN

\* a + b in IEEE arithmetic
ExtAdd(a, b) ==
    IF a = NaN \/ b = NaN THEN NaN
    ELSE IF a = PosInf THEN (IF b = NegInf THEN NaN ELSE PosInf)
    ELSE IF a = NegInf THEN (IF b = PosInf THEN NaN ELSE NegInf)
    ELSE IF b = PosInf \/ b = NegInf THEN b
    ELSE a + b

\* a > b in IEEE arithmetic, b a number
ExtGreater(a, b) == a # NaN /\ a # NegInf /\ (a = PosInf \/ a > b)

RECURSIVE ExtSum(_)
ExtSum(s) == IF s = <<>> THEN 0 ELSE ExtAdd(Head(s), ExtSum(Tail(s)))

\* np.log(v / 1000) in thousandths for v in [1000, 2000):
\* 2 * atanh((v - 1000) / (v + 1000))
LnSeries(v) ==
    LET z  == (1000000 * (v - 1000)) \div (v + 1000)     \* millionths
        z2 == (z \div 1000) * (z \div 1000)              \* millionths
        z3 == ((z \div 1000) * (z2 \div 1000))           \* millionths
        z5 == ((z3 \div 1000) * (z2 \div 1000))
    IN  (2 * (z + z3 \div 3 + z5 \div 5)) \div 1000

\* np.log(v / 1000) in thousandths for v >= 1000
RECURSIVE Ln(_)
Ln(v) == IF v >= 2000 THEN 693 + Ln(v \div 2) ELSE LnSeries(v)

\* m = -np.log(2) / np.log(np.cos(np.radians(beam_angle / 2))), thousandths:
\* 1 at 120 degrees, 2 at 90; at 180 the cosine is 6.1e-17, not 0, and m is
\* 0.0186
LambertianOrder(beam_angle) ==
    CASE beam_angle = 120 -> 1000
      [] beam_angle = 90  -> 2000
      [] beam_angle = 180 -> 19

\* np.power(np.cos(np.arctan2(distance, 2.0)), m): the cosine is
\* 20 / sqrt(d^2 + 400) for d in decimetres; d2 = d^2, m in thousandths
CosPower(d2, m) ==
    ExpNeg((m * (Ln((1000 * (d2 + 400)) \div 400) \div 2)) \div 1000)

calculate_wavelength_attenuation(wavelength) ==
    IF 380 <= wavelength /\ wavelength <= 780
    THEN ExpNeg((100 * Abs(wavelength - 550)) \div 230)
    ELSE 500

calculate_wavelength_overlap(wavelength1, wavelength2) ==
    ExpNeg((1000 * (wavelength1 - wavelength2) * (wavelength1 - wavelength2))
           \div 450)

\* one wall's term of calculate_reflected_power
WallReflection(ls, wall_point, point_pos) ==
    LET pos == ls.position
        radius == ls.properties.coverage_radius
        incident_vec == <<wall_point[1] - pos[1], wall_point[2] - pos[2]>>
        incident_d2 == Dist2(wall_point, pos)
        reflected_d2 == Dist2(point_pos, wall_point)
        incident_distance == ISqrt(incident_d2)       \* exact: axis-parallel
        reflected_mm == ISqrt(10000 * reflected_d2)
        \* cos(arccos(dot(incident_vec, (0, 1)) / incident_distance))
        cos_sign == IF incident_vec[2] > 0 THEN 1
                    ELSE IF incident_vec[2] < 0 THEN -1 ELSE 0
        numerator == ls.properties.power * cos_sign
    IN  IF incident_d2 <= radius * radius /\ reflected_d2 <= radius * radius
        THEN IF incident_d2 = 0 THEN NaN                 \* 0 / 0
             ELSE IF reflected_d2 = 0
                  THEN \* x / 0; np.cos(np.arccos(0)) is 6.1e-17, not 0
                       IF numerator < 0 THEN NegInf
                       ELSE IF ls.properties.power > 0 THEN PosInf
                       ELSE IF ls.properties.power < 0 /\ cos_sign = 0 THEN NegInf
                       ELSE IF numerator > 0 THEN PosInf ELSE NaN
                  ELSE Trunc(Trunc(numerator * 3000000,
                                   incident_distance * reflected_mm)
                             * calculate_wavelength_attenuation(
                                   ls.properties.wavelength), 1000)
        ELSE 0

calculate_reflected_power(ls, point_pos, fp) ==
    LET pos == ls.position
        wall_points == << <<pos[1], 0>>, <<pos[1], fp.height>>,
                          <<0, pos[2]>>, <<fp.width, pos[2]>> >>
    IN  ExtSum([w \in 1..4 |-> WallReflection(ls, wall_points[w], point_pos)])

\* direct_power of one light source at one grid point it reaches
DirectPower(ls, point_pos) ==
    LET d2 == Dist2(point_pos, ls.position)
        m == LambertianOrder(ls.properties.beam_angle)
        lambertian == ((((m + 1000) * 1000) \div 6283) * CosPower(d2, m)) \div 1000
        range == ExpNeg(ISqrt(1000000 * d2) \div ls.properties.coverage_radius)
    IN  Trunc(Trunc(ls.properties.power * lambertian * range, 1000)
              * calculate_wavelength_attenuation(ls.properties.wavelength), 1000)

\* np.log(v / 1000) in thousandths for v >= 1
LnAny(v) == IF v >= 1000 THEN Ln(v) ELSE - Ln(1000000 \div v)

\* 10 * np.log10(total_signal / (total_interference + noise_power)) in
\* hundredths of a dB, for total_signal > 0; noise_power is 1e-9 W, which
\* counts only where there is no interference (ln(1e9) = 20.723)
SinrDb(total_signal, total_interference) ==
    IF total_signal = PosInf THEN PosInf
    ELSE LET ln == IF total_interference = 0
                   THEN LnAny(total_signal) + 20723
                   ELSE LnAny(total_signal) - LnAny(total_interference)
         IN  Trunc(4343 * ln, 10000)

\* a source that contributes whatever the distance
ReachedAlways(ls, point_pos) == TRUE

\* "if distance <= ls['properties']['coverage_radius']"
Reached(ls, point_pos) ==
    Dist2(point_pos, ls.position)
        <= ls.properties.coverage_radius * ls.properties.coverage_radius

\* the body of the two grid loops for one point: the sums over light_sources
PointEval(fp, light_sources, point_pos) ==
    LET reached(ls) == Reached(ls, point_pos)
        signal(ls) ==
            IF reached(ls)
            THEN ExtAdd(DirectPower(ls, point_pos),
                        calculate_reflected_power(ls, point_pos, fp))
            ELSE 0
        interference(ls) ==
            IF reached(ls)
            THEN SumSeq([k \in 1..Len(light_sources) |->
                     LET other_ls == light_sources[k]
                         wavelength_overlap ==
                             calculate_wavelength_overlap(
                                 ls.properties.wavelength,
                                 other_ls.properties.wavelength)
                     IN  IF /\ other_ls # ls
                            /\ wavelength_overlap > 0
                            /\ reached(other_ls)
                         THEN Trunc(other_ls.properties.power * wavelength_overlap
                                    * ExpNeg(ISqrt(1000000 * Dist2(point_pos,
                                                       other_ls.position))
                                             \div other_ls.properties.coverage_radius),
                                    1000)
                         ELSE 0])
            ELSE 0
        total_signal == ExtSum([k \in 1..Len(light_sources) |->
                                   signal(light_sources[k])])
        total_interference == SumSeq([k \in 1..Len(light_sources) |->
                                         interference(light_sources[k])])
    IN  [signal |-> total_signal,
         interference |-> total_interference,
         sinr |-> IF ExtGreater(total_signal, 0)
                  THEN SinrDb(total_signal, total_interference) ELSE 0]

\* the points np.arange(0, width, 0.1) x np.arange(0, height, 0.1), row by
\* row: cells[point_y + 1][point_x + 1]
RECURSIVE GridRow(_, _, _, _)
GridRow(fp, light_sources, point_y, n) ==
    IF n = 0 THEN <<>>
    ELSE Append(GridRow(fp, light_sources, point_y, n - 1),
                PointEval(fp, light_sources, <<n - 1, point_y>>))

RECURSIVE GridRows(_, _, _)
GridRows(fp, light_sources, n) ==
    IF n = 0 THEN <<>>
    ELSE Append(GridRows(fp, light_sources, n - 1),
                GridRow(fp, light_sources, n - 1, fp.width))

LightSources(comps) == SelectSeq(comps, LAMBDA c : c.type = "Light Source")

\* "Calculate metrics" and the returned dict, from the evaluated grid
Metrics(fp, cells) ==
    LET Points == (1..fp.height) \X (1..fp.width)
        at(p) == cells[p[1]][p[2]]
        covered_points == Cardinality({p \in Points : ExtGreater(at(p).signal, 0)})
        interference_points ==
            Cardinality({p \in Points :
                LET c == at(p).signal
                IN  /\ c # NaN /\ c # PosInf
                    /\ (c = NegInf \/ 10 * at(p).interference > c)})
        nonzero == {p \in Points : at(p).sinr # 0}
        sinr_of == [p \in Points |-> at(p).sinr]
    IN  IF nonzero = {}
        THEN \* np.min of an empty selection raises ValueError
             [status |-> "raised"]
        ELSE [status |-> "ok",
              coverage_percentage |-> (100 * covered_points) \div (fp.width * fp.height),
              interference_points |-> interference_points,
              coverage_map |-> [y \in 1..fp.height |-> [x \in 1..fp.width |->
                                   cells[y][x].signal]],
              interference_map |-> [y \in 1..fp.height |-> [x \in 1..fp.width |->
                                       cells[y][x].interference]],
              sinr_map |-> [y \in 1..fp.height |-> [x \in 1..fp.width |->
                               cells[y][x].sinr]],
              \* PosInf is the largest integer of the model
              average_sinr |->
                  IF \E p \in nonzero : sinr_of[p] = PosInf THEN PosInf
                  ELSE Trunc(SumOver(nonzero, sinr_of), Cardinality(nonzero)),
              min_sinr |->
                  sinr_of[CHOOSE p \in nonzero :
                              \A q \in nonzero : sinr_of[p] <= sinr_of[q]],
              max_sinr |->
                  sinr_of[CHOOSE p \in Points :
                              \A q \in Points : sinr_of[q] <= sinr_of[p]]]

analyze_coverage(fp, comps) ==
    Metrics(fp, GridRows(fp, LightSources(comps), fp.height))

(***************************************************************************)
(* The analyzer under test: a caller analyses a component list, then the   *)
(* list with one more component.                                           *)
(***************************************************************************)
\* components per analysed list
MaxComponents == 2

LightSource(id, position, power, beam_angle, wavelength, coverage_radius) ==
    [type |-> "Light Source", id |-> id, position |-> position,
     properties |-> [power |-> power, beam_angle |-> beam_angle,
                     wavelength |-> wavelength,
                     coverage_radius |-> coverage_radius],
     floor_level |-> 0]

CovFloorPlans == { [width |-> 6, height |-> 5], [width |-> 4, height |-> 4] }

\* the components a caller may add, given the id the new component takes
CovComponents(id) ==
    { LightSource(id, <<3, 1>>, 20, 120, 550, 3),
      LightSource(id, <<2, 3>>, 20, 120, 550, 3),
      LightSource(id, <<2, 3>>, 20, 180, 550, 3),
      LightSource(id, <<3, 2>>, 20, 120, 560, 30),
      LightSource(id, <<1, 2>>, 0, 120, 550, 2),
      LightSource(id, <<0, 0>>, 20, 120, 550, 30),
      LightSource(id, <<2, 2>>, 20, 120, 550, 1),
      Component("Receiver", id, <<1, 1>>, 0) }

CovSessions ==
    {<<>>} \cup {<<c>> : c \in {LightSource(0, <<2, 2>>, 20, 120, 550, 3),
                                 LightSource(0, <<1, 3>>, 20, 90, 650, 2),
                                 LightSource(0, <<2, 2>>, 20, 120, 550, 1),
                                 Component("Receiver", 0, <<2, 2>>, 0)}}

InitCov ==
    /\ objs \in CovSessions
    /\ vlc_components = [a \in 1..Len(objs) |-> a]
    /\ floor_plan \in CovFloorPlans
    /\ optimization_params = NoneParams
    /\ rng = [s |-> 1, c |-> 1]
    /\ refiner = [step |-> 0, success |-> TRUE]
    /\ pc = "idle"
    /\ components = <<>>
    /\ pso = PSOptimizer_init(0, 0, <<>>, rng)
    /\ iter = 0
    /\ result = NoResult
    /\ returned = <<>>
    /\ pre_objs = objs
    /\ call_log = <<>>
    /\ analysis = NoAnalysis
    /\ prev_analysis = NoAnalysis
    /\ selected_component = None
    /\ evaluation = NoEvaluation
    /\ self_components = vlc_components
    /\ component_history = <<>>
    /\ history_index = -1

\* analyze_coverage(floor_plan, components) on the list as it is
Analyze ==
    /\ analysis.status = "none"
    /\ analysis' = analyze_coverage(floor_plan, Records(objs, vlc_components))
    /\ prev_analysis' = analysis
    /\ UNCHANGED <<objs, vlc_components, floor_plan, optimization_params, rng,
                   refiner, pc, components, pso, iter, result, returned,
                   pre_objs, call_log, selected_component, evaluation>>
    /\ UNCHANGED <<self_components, component_history, history_index>>

\* one more component, then analyze_coverage on the longer list
AnalyzeWithAdded ==
    /\ analysis.status # "none"
    /\ Len(objs) < MaxComponents
    /\ \E c \in CovComponents(Len(objs)) :
          /\ objs' = Append(objs, c)
          /\ vlc_components' = Append(vlc_components, Len(objs) + 1)
          /\ analysis' = analyze_coverage(floor_plan,
                                          Records(objs', vlc_components'))
    /\ prev_analysis' = analysis
    /\ UNCHANGED <<floor_plan, optimization_params, rng, refiner, pc,
                   components, pso, iter, result, returned, pre_objs, call_log,
                   selected_component, evaluation>>
    /\ UNCHANGED <<self_components, component_history, history_index>>

NextCov == Analyze \/ AnalyzeWithAdded

SpecCov == InitCov /\ [][NextCov]_vars

(***************************************************************************)
(* Claims about analyze_coverage.                                          *)
(***************************************************************************)
AnalysedSources == LightSources(Records(objs, vlc_components))

AllZero(map) ==
    \A y \in 1..Len(map) : \A x \in 1..Len(map[y]) : map[y][x] = 0

\* C3: with no light source in the list, analyze_coverage returns normally:
\* coverage_percentage 0, interference_points 0, all-zero maps.
C3_EmptyListIsZero ==
    (analysis.status # "none" /\ AnalysedSources = <<>>) =>
        /\ analysis.status = "ok"
        /\ analysis.coverage_percentage = 0
        /\ analysis.interference_points = 0
        /\ AllZero(analysis.coverage_map)
        /\ AllZero(analysis.interference_map)

\* a >= b in IEEE arithmetic
ExtGeq(a, b) ==
    /\ a # NaN /\ b # NaN
    /\ (a = b \/ a = PosInf \/ b = NegInf
        \/ (IsNum(a) /\ IsNum(b) /\ a >= b))

\* what the spec calls a DomainError: a light source outside its domain
InvalidSource(ls) ==
    \/ ls.properties.beam_angle <= 0
    \/ ls.properties.beam_angle >= 180
    \/ ls.properties.power <= 0
    \/ ls.properties.coverage_radius <= 0

\* the last call analysed the previous call's list plus one light source
\* placed within the floor, every light source being within its domain
AddedLightSource ==
    /\ analysis.status = "ok"
    /\ prev_analysis.status = "ok"
    /\ objs[Len(objs)].type = "Light Source"
    /\ InFloor(objs[Len(objs)].position, floor_plan)
    /\ \A k \in 1..Len(AnalysedSources) : ~InvalidSource(AnalysedSources[k])

\* C4: adding one light source within the floor to a list never decreases
\* coverage_map at any grid point.
C4_CoverageMonotone ==
    AddedLightSource =>
        \A y \in 1..floor_plan.height : \A x \in 1..floor_plan.width :
            ExtGeq(analysis.coverage_map[y][x], prev_analysis.coverage_map[y][x])

\* C8: a list holding a light source with beam_angle 0 or 180, or with
\* non-positive power or coverage_radius, is rejected with a DomainError:
\* no grid point is evaluated and no result is returned for it.
C8_InvalidSourceRejected ==
    (/\ analysis.status # "none"
     /\ \E k \in 1..Len(AnalysedSources) : InvalidSource(AnalysedSources[k]))
        => analysis.status # "ok"

\* the grid points of the last analysis whose coverage is > 0
CoveredPoints ==
    {p \in (1..floor_plan.height) \X (1..floor_plan.width) :
        ExtGreater(analysis.coverage_map[p[1]][p[2]], 0)}

SinrAt(p) == analysis.sinr_map[p[1]][p[2]]

\* C12: in the analysis of light sources within their domain, points with
\* zero coverage carry SINR 0, and average_sinr, min_sinr and max_sinr are
\* each taken over the points whose coverage is > 0 only.
C12_AggregatesOverCovered ==
    (/\ analysis.status = "ok"
     /\ CoveredPoints # {}
     /\ \A k \in 1..Len(AnalysedSources) : ~InvalidSource(AnalysedSources[k])) =>
        /\ \A y \in 1..floor_plan.height : \A x \in 1..floor_plan.width :
              analysis.coverage_map[y][x] = 0 => analysis.sinr_map[y][x] = 0
        /\ \E p \in CoveredPoints :
              /\ analysis.max_sinr = SinrAt(p)
              /\ \A q \in CoveredPoints : SinrAt(q) <= SinrAt(p)
        /\ \E p \in CoveredPoints :
              /\ analysis.min_sinr = SinrAt(p)
              /\ \A q \in CoveredPoints : SinrAt(q) >= SinrAt(p)
        /\ \/ analysis.average_sinr = PosInf
           \/ analysis.average_sinr
                  = Trunc(SumOver(CoveredPoints,
                                  [p \in CoveredPoints |-> SinrAt(p)]),
                          Cardinality(CoveredPoints))

Beyond(ls, p) ==
    Dist2(p, ls.position)
        > ls.properties.coverage_radius * ls.properties.coverage_radius

\* the analysed light sources that are not beyond their radius from p
SourcesNear(p) == SelectSeq(AnalysedSources, LAMBDA ls : ~Beyond(ls, p))

\* C15: a light source contributes nothing to coverage_map at a grid point
\* farther from it than its coverage_radius: the entry is what the sources
\* within their radius give, and 0 where every source is beyond its radius.
C15_HardCutoff ==
    analysis.status = "ok" =>
        \A y \in 1..floor_plan.height : \A x \in 1..floor_plan.width :
            LET p == <<x - 1, y - 1>>
            IN  /\ analysis.coverage_map[y][x]
                       = PointEval(floor_plan, SourcesNear(p), p).signal
                /\ SourcesNear(p) = <<>> => analysis.coverage_map[y][x] = 0

\* an analysis of two light sources with a point that only one of them
\* reaches and that has coverage, and a point beyond both
C15_Witness ==
    /\ analysis.status = "ok"
    /\ Len(AnalysedSources) = 2
    /\ \E y \in 1..floor_plan.height : \E x \in 1..floor_plan.width :
          /\ Len(SourcesNear(<<x - 1, y - 1>>)) = 1
          /\ ExtGreater(analysis.coverage_map[y][x], 0)
          /\ IsNum(analysis.coverage_map[y][x])
    /\ \E y \in 1..floor_plan.height : \E x \in 1..floor_plan.width :
          /\ SourcesNear(<<x - 1, y - 1>>) = <<>>
          /\ analysis.coverage_map[y][x] = 0

\* the specified interference at p: for every ordered pair of distinct
\* light sources with spectral overlap, otherSource's power where p is
\* within otherSource's radius
InterferenceOverPairs(light_sources, p) ==
    LET n == Len(light_sources)
        P == {ij \in (1..n) \X (1..n) : light_sources[ij[1]] # light_sources[ij[2]]}
        term == [ij \in P |->
            LET ls == light_sources[ij[1]]
                other_ls == light_sources[ij[2]]
                wavelength_overlap ==
                    calculate_wavelength_overlap(ls.properties.wavelength,
                                                 other_ls.properties.wavelength)
            IN  IF wavelength_overlap > 0 /\ ~Beyond(other_ls, p)
                THEN Trunc(other_ls.properties.power * wavelength_overlap
                           * ExpNeg(ISqrt(1000000 * Dist2(p, other_ls.position))
                                    \div other_ls.properties.coverage_radius),
                           1000)
                ELSE 0]
    IN  SumOver(P, term)

\* C21: in the analysis of light sources within their domain,
\* interference_map[p] is the sum over all ordered pairs (source,
\* otherSource) of distinct overlapping sources with p within otherSource's
\* radius, whether or not p is within source's own radius.
C21_InterferenceSeparate ==
    (/\ analysis.status = "ok"
     /\ \A k \in 1..Len(AnalysedSources) : ~InvalidSource(AnalysedSources[k])) =>
        \A y \in 1..floor_plan.height : \A x \in 1..floor_plan.width :
            analysis.interference_map[y][x]
                = InterferenceOverPairs(AnalysedSources, <<x - 1, y - 1>>)

\* C25: with every light source valid and within [0,width] x [0,height],
\* boundary included, the reflected-power term never divides by zero:
\* every entry of coverage_map is a finite number.
C25_CoverageFinite ==
    (/\ analysis.status = "ok"
     /\ \A k \in 1..Len(AnalysedSources) :
           /\ ~InvalidSource(AnalysedSources[k])
           /\ InFloor(AnalysedSources[k].position, floor_plan)) =>
        \A y \in 1..floor_plan.height : \A x \in 1..floor_plan.width :
            IsNum(analysis.coverage_map[y][x])

(***************************************************************************)
(* The scorer under test: calls of multi_objective_function on a particle  *)
(* of the swarm, before, between and after the updates of one              *)
(* optimize_placement call.                                                *)
(***************************************************************************)
ScoreParamSets ==
    {Params(4, 3, 3, 20, 5, mi) : mi \in 1..MaxIter}
        \cup {Params(4, 3, 3, 30, 5, 1), Params(10, 3, 0, 10, 5, MaxIter)}

InitScore ==
    /\ objs \in Sessions \ {<<>>}
    /\ vlc_components = [a \in 1..Len(objs) |-> a]
    /\ floor_plan \in FloorPlans
    /\ optimization_params \in ScoreParamSets
    /\ rng \in Seeds
    /\ refiner = [step |-> 3, success |-> TRUE]
    /\ pc = "idle"
    /\ components = <<>>
    /\ pso = PSOptimizer_init(0, 0, <<>>, rng)
    /\ iter = 0
    /\ result = NoResult
    /\ returned = <<>>
    /\ pre_objs = objs
    /\ call_log = <<>>
    /\ analysis = NoAnalysis
    /\ prev_analysis = NoAnalysis
    /\ selected_component = None
    /\ evaluation = NoEvaluation
    /\ self_components = vlc_components
    /\ component_history = <<>>
    /\ history_index = -1

\* one call objective_func(p) on the current position of a particle; the
\* function assigns to nothing outside its own locals
Evaluate ==
    /\ pc \in {"loop", "refine"}
    /\ evaluation = NoEvaluation
    /\ \E p \in 1..Min(2, pso.n_particles) :
          evaluation' =
              [x |-> pso.positions[p],
               score |-> multi_objective_function(floor_plan,
                             Records(objs, components),
                             EffectiveParams(optimization_params),
                             pso.positions[p]),
               at |-> iter]
    /\ UNCHANGED <<objs, vlc_components, floor_plan, optimization_params, rng,
                   refiner, pc, components, pso, iter, result, returned,
                   pre_objs, call_log, analysis, prev_analysis,
                   selected_component>>
    /\ UNCHANGED <<self_components, component_history, history_index>>

NextScore == OptimizeClick \/ Evaluate \/ Update \/ Refine

SpecScore == InitScore /\ [][NextScore]_vars

(***************************************************************************)
(* Claims about the scorer.                                                *)
(***************************************************************************)
\* C14: scoring is idempotent and changes no state: a position vector that
\* was scored gets the same score when scored again in any later state of
\* the call, and a call of the scorer leaves the config, the floor plan, the
\* components and the particle arrays as they were.
C14_ScoringIdempotent ==
    /\ [](evaluation # NoEvaluation =>
            multi_objective_function(floor_plan, Records(objs, components),
                                     EffectiveParams(optimization_params),
                                     evaluation.x) = evaluation.score)
    /\ [][evaluation' # evaluation =>
            UNCHANGED <<objs, floor_plan, optimization_params, components,
                        pso, rng>>]_vars

\* a vector scored before an update is scored again after the update and
\* after the write-back moved the components
C14_Witness ==
    /\ evaluation # NoEvaluation
    /\ evaluation.at = 0
    /\ iter > 0
    /\ pc = "returned"
    /\ \E a \in 1..Len(objs) : objs[a].position # pre_objs[a].position

\* the specified interference penalty: exp(-distance) summed over the pairs
\* closer than min_distance
PenaltyWithin(locations, min_distance) ==
    LET P == Pairs(Len(locations))
        pen == [ij \in P |->
                   LET distance == DistMM(locations[ij[1]], locations[ij[2]])
                   IN  IF distance < 100 * min_distance
                       THEN ExpNeg(distance) ELSE 0]
    IN  SumOver(P, pen)

\* C19: for every particle the scorer's interference penalty is the sum of
\* exp(-distance) over exactly the pairs closer than the config's
\* min_distance.
C19_PenaltyUsesMinDistance ==
    pc \in {"loop", "refine"} =>
        \A p \in 1..pso.n_particles :
            calculate_interference_penalty(Reshape(pso.positions[p]))
                = PenaltyWithin(Reshape(pso.positions[p]),
                                EffectiveParams(optimization_params).min_distance)

\* total power of the light sources among comps
TotalLightSourcePower(comps) ==
    SumSeq([k \in 1..Len(comps) |->
               IF comps[k].type = "Light Source"
               THEN comps[k].properties.power ELSE 0])

\* C20: for every particle the scorer's power efficiency is the coverage
\* score of the score's coverage term (same floor plan, same positions)
\* divided by the total light source power, and 0 without light sources.
C20_EfficiencyFromCoarseScore ==
    pc \in {"loop", "refine"} =>
        \A p \in 1..pso.n_particles :
            LET locations == Reshape(pso.positions[p])
                comps == Records(objs, components)
                total_power == TotalLightSourcePower(comps)
            IN  calculate_power_efficiency(locations, comps)
                    = IF total_power = 0 THEN 0
                      ELSE Trunc(calculate_coverage_score(floor_plan, locations),
                                 total_power)

\* the summed power of the light sources among the components of the call
CallLightSourcePower ==
    SumSeq([k \in 1..Len(components) |->
               IF objs[components[k]].type = "Light Source"
               THEN objs[components[k]].properties.power ELSE 0])

\* the weights of the default config in a config the constructor accepts,
\* and a total light-source power of 0 or of at least 1 W
DefaultWeightsAndPower ==
    /\ EffectiveParams(optimization_params).coverage_weight = 4
    /\ EffectiveParams(optimization_params).interference_weight = 3
    /\ EffectiveParams(optimization_params).power_weight = 3
    /\ ValidParams(EffectiveParams(optimization_params))
    /\ CallLightSourcePower = 0 \/ CallLightSourcePower >= 1

\* C24: under the default weights and a total light-source power of 0 or
\* at least 1 W every score is at least -0.4, the global best never falls
\* below -0.95, and a call that has left the PSO loop has performed exactly
\* max_iterations updates.
C24_NoEarlyExitByDefault ==
    (pc # "idle" /\ DefaultWeightsAndPower) =>
        /\ pc = "loop" => \A p \in 1..pso.n_particles : CurrentScores[p] >= -400
        /\ iter > 0 => pso.global_best_score >= -400
        /\ pc # "loop" => iter = EffectiveParams(optimization_params).max_iterations

\* displacements of the input components
Shifts == { <<10, 0>>, <<-5, 7>> }

\* comps with every position moved by shift
Displaced(comps, shift) ==
    [k \in 1..Len(comps) |->
        [comps[k] EXCEPT !.position = <<comps[k].position[1] + shift[1],
                                        comps[k].position[2] + shift[2]>>]]

\* C23: the positions of the input components do not influence the result:
\* on the same random draws every update of the swarm is the update it
\* would be with the input components standing elsewhere, and the returned
\* positions are the refiner's result from the swarm's global best.
C23_InputPositionsUnused ==
    /\ [][(pc = "loop" /\ iter' = iter + 1) =>
            \A shift \in Shifts :
                pso' = PSOptimizer_update(pso, floor_plan,
                           Displaced(Records(objs, components), shift),
                           EffectiveParams(optimization_params), rng)]_vars
    /\ [](pc = "returned" =>
            /\ result = Minimize(pso.global_best_position, pso.bounds, refiner)
            /\ \A i \in 1..Len(returned) :
                  objs[returned[i]].position = Reshape(result.x)[i])

\* a call on two components, a light source among them, has returned
\* positions that differ from the input positions
C23_Witness ==
    /\ pc = "returned"
    /\ iter > 0
    /\ Len(returned) >= 2
    /\ \E i \in 1..Len(returned) : objs[returned[i]].type = "Light Source"
    /\ \A i \in 1..Len(returned) :
          objs[returned[i]].position # pre_objs[returned[i]].position

(***************************************************************************)
(* The component manager (components/vlc_components.py) and the sidebar    *)
(* and editor of main.py: a session that adds, selects, edits and deletes  *)
(* components.                                                             *)
(***************************************************************************)
\* add_component calls in one session
MaxAdds == 3

ComponentTypes == {"Light Source", "Receiver"}

\* the first component of the list whose id is component_id, as
\* next((c for c in vlc_components if c['id'] == component_id), None) finds
\* it: its address, or 0 for None
FindComponent(o, list, component_id) ==
    LET hits == {k \in 1..Len(list) : o[list[k]].id = component_id}
    IN  IF hits = {} THEN 0
        ELSE list[CHOOSE k \in hits : \A j \in hits : k <= j]

\* main.py's session state on the first run
InitHost ==
    /\ objs = <<>>
    /\ vlc_components = <<>>
    /\ floor_plan = [width |-> 80, height |-> 60]
    /\ optimization_params = NoneParams
    /\ rng = [s |-> 1, c |-> 1]
    /\ refiner = [step |-> 0, success |-> TRUE]
    /\ pc = "idle"
    /\ components = <<>>
    /\ pso = PSOptimizer_init(0, 0, <<>>, rng)
    /\ iter = 0
    /\ result = NoResult
    /\ returned = <<>>
    /\ pre_objs = objs
    /\ call_log = <<>>
    /\ analysis = NoAnalysis
    /\ prev_analysis = NoAnalysis
    /\ selected_component = None
    /\ evaluation = NoEvaluation
    /\ self_components = vlc_components
    /\ component_history = <<>>
    /\ history_index = -1

\* main.py "Add New Component": add_component appends the new dict, with
\* id = len(vlc_components) and no floor_level key (read as 0), selects it
\* and returns None, so the "if new_component:" branch is not taken
AddComponent ==
    /\ Len(objs) < MaxAdds
    /\ \E component_type \in ComponentTypes :
          objs' = Append(objs, Component(component_type, Len(vlc_components),
                                         <<0, 0>>, 0))
    /\ vlc_components' = Append(vlc_components, Len(objs) + 1)
    /\ selected_component' = Len(vlc_components)
    /\ UNCHANGED <<floor_plan, optimization_params, rng, refiner, pc,
                   components, pso, iter, result, returned, pre_objs, call_log,
                   analysis, prev_analysis, evaluation>>
    /\ UNCHANGED <<self_components, component_history, history_index>>

\* main.py "Component List": the button of one listed component
SelectComponent ==
    /\ \E k \in 1..Len(vlc_components) :
          /\ selected_component # objs[vlc_components[k]].id
          /\ selected_component' = objs[vlc_components[k]].id
    /\ UNCHANGED <<objs, vlc_components, floor_plan, optimization_params, rng,
                   refiner, pc, components, pso, iter, result, returned,
                   pre_objs, call_log, analysis, prev_analysis, evaluation>>
    /\ UNCHANGED <<self_components, component_history, history_index>>

\* main.py "Component Editor": edit_component is handed the component dict,
\* which equals no id, so it returns at once; the floor level editor then
\* assigns the component's floor_level
EditSelected ==
    /\ selected_component # None
    /\ LET a == FindComponent(objs, vlc_components, selected_component)
       IN  /\ a # 0
           /\ \E new_floor \in 0..1 :
                 /\ new_floor # objs[a].floor_level
                 /\ objs' = [objs EXCEPT ![a].floor_level = new_floor]
    /\ UNCHANGED <<vlc_components, floor_plan, optimization_params, rng,
                   refiner, pc, components, pso, iter, result, returned,
                   pre_objs, call_log, analysis, prev_analysis,
                   selected_component, evaluation>>
    /\ UNCHANGED <<self_components, component_history, history_index>>

\* edit_component(component_id) for the id of a listed component, with
\* "Delete Component" pressed: every component of that id leaves the list
DeleteComponent ==
    /\ \E component_id \in {objs[vlc_components[k]].id :
                               k \in 1..Len(vlc_components)} :
          /\ FindComponent(objs, vlc_components, component_id) # 0
          /\ vlc_components' = SelectSeq(vlc_components,
                                   LAMBDA a : objs[a].id # component_id)
    /\ selected_component' = None
    /\ UNCHANGED <<objs, floor_plan, optimization_params, rng, refiner, pc,
                   components, pso, iter, result, returned, pre_objs, call_log,
                   analysis, prev_analysis, evaluation>>
    /\ UNCHANGED <<self_components, component_history, history_index>>

NextHost == AddComponent \/ SelectComponent \/ EditSelected \/ DeleteComponent

SpecHost == InitHost /\ [][NextHost]_vars

(***************************************************************************)
(* Claims about the component list.                                        *)
(***************************************************************************)
\* C11: after any sequence of add and delete operations no two components
\* of the session list have the same id.
C11_IdsUnique ==
    \A i, j \in 1..Len(vlc_components) :
        i # j => objs[vlc_components[i]].id # objs[vlc_components[j]].id

(***************************************************************************)
(* The undo/redo history of the visualizer (components/visualization.py):  *)
(* drags of components on the canvas, undo and redo.  A snapshot is a list *)
(* of addresses: list.copy() copies the list, not the dicts it holds.      *)
(***************************************************************************)
\* snapshots the history may hold
MaxHistory == 3

\* where a drag may drop a component (decimetres)
DragTargets == { <<10, 10>>, <<30, 20>>, <<25, 5>> }

\* the component lists the visualizer is constructed with
HistorySessions == { s \in Sessions : Len(s) \in 1..2 }

\* _add_to_history with the snapshots after the index kept
AddWithoutDiscard(history, index, comps) ==
    [component_history |-> Append(history, comps),
     history_index |-> Len(history)]

\* NetworkVisualizer._add_to_history: the new history and index
add_to_history(history, index, comps) ==
    LET kept == IF index < Len(history) - 1
                THEN SubSeq(history, 1, index + 1)
                ELSE history
        grown == Append(kept, comps)
    IN  [component_history |-> grown, history_index |-> Len(grown) - 1]

\* NetworkVisualizer.undo: the new index and self.components
\* (Python's history[i] is history[i + 1] here)
undo(history, index, comps) ==
    IF index > 0
    THEN [history_index |-> index - 1, components |-> history[index]]
    ELSE [history_index |-> index, components |-> comps]

\* NetworkVisualizer.redo
redo(history, index, comps) ==
    IF index < Len(history) - 1
    THEN [history_index |-> index + 1, components |-> history[index + 2]]
    ELSE [history_index |-> index, components |-> comps]

\* the session state main.py creates (empty history, index -1), or the one
\* plot creates when the session has no history (one snapshot, index 0)
InitHistory ==
    /\ objs \in HistorySessions
    /\ vlc_components = [a \in 1..Len(objs) |-> a]
    /\ floor_plan = [width |-> 80, height |-> 60]
    /\ optimization_params = NoneParams
    /\ rng = [s |-> 1, c |-> 1]
    /\ refiner = [step |-> 0, success |-> TRUE]
    /\ pc = "idle"
    /\ components = <<>>
    /\ pso = PSOptimizer_init(0, 0, <<>>, rng)
    /\ iter = 0
    /\ result = NoResult
    /\ returned = <<>>
    /\ pre_objs = objs
    /\ call_log = <<>>
    /\ analysis = NoAnalysis
    /\ prev_analysis = NoAnalysis
    /\ selected_component = None
    /\ evaluation = NoEvaluation
    /\ self_components = vlc_components
    /\ \/ /\ component_history = <<>>
          /\ history_index = -1
       \/ /\ component_history = <<self_components>>
          /\ history_index = 0

\* _handle_drag: the dragged component's dict gets the new position, then
\* _add_to_history records self.components
HandleDrag ==
    /\ \E k \in 1..Len(self_components), target \in DragTargets :
          LET component_id == objs[self_components[k]].id
              a == FindComponent(objs, self_components, component_id)
              h == add_to_history(component_history, history_index,
                                  self_components)
          IN  /\ Len(h.component_history) <= MaxHistory
              /\ objs' = [objs EXCEPT ![a].position = target]
              /\ component_history' = h.component_history
              /\ history_index' = h.history_index
    /\ pre_objs' = objs
    /\ UNCHANGED <<vlc_components, floor_plan, optimization_params, rng,
                   refiner, pc, components, pso, iter, result, returned,
                   call_log, analysis, prev_analysis, selected_component,
                   evaluation, self_components>>

Undo ==
    /\ self_components' = undo(component_history, history_index,
                               self_components).components
    /\ history_index' = undo(component_history, history_index,
                             self_components).history_index
    /\ UNCHANGED <<objs, vlc_components, floor_plan, optimization_params, rng,
                   refiner, pc, components, pso, iter, result, returned,
                   pre_objs, call_log, analysis, prev_analysis,
                   selected_component, evaluation, component_history>>

Redo ==
    /\ self_components' = redo(component_history, history_index,
                               self_components).components
    /\ history_index' = redo(component_history, history_index,
                             self_components).history_index
    /\ UNCHANGED <<objs, vlc_components, floor_plan, optimization_params, rng,
                   refiner, pc, components, pso, iter, result, returned,
                   pre_objs, call_log, analysis, prev_analysis,
                   selected_component, evaluation, component_history>>

NextHistory == HandleDrag \/ Undo \/ Redo

SpecHistory == InitHistory /\ [][NextHistory]_vars

(***************************************************************************)
(* Claims about the history.                                               *)
(***************************************************************************)
\* the positions the components of a list have in a heap
PositionsOf(o, list) == [k \in 1..Len(list) |-> o[list[k]].position]

\* C26: undo restores what was recorded: a drag leaves the positions held
\* by every stored snapshot as they were, an undo after a drag gives the
\* visualizer's components the positions they had before that drag (when
\* the previous snapshot was taken), and a redo gives them the positions of
\* the snapshot it moves to.
C26_UndoRestoresSnapshot ==
    /\ [][objs' # objs =>
            \A i \in 1..Len(component_history) :
                i <= Len(component_history') =>
                    PositionsOf(objs', component_history'[i])
                        = PositionsOf(objs, component_history[i])]_vars
    /\ [][(history_index' = history_index - 1
              /\ history_index = Len(component_history) - 1) =>
            PositionsOf(objs', self_components')
                = PositionsOf(pre_objs, component_history[history_index])]_vars
    /\ [][(history_index' = history_index + 1 /\ objs' = objs) =>
            PositionsOf(objs', self_components')
                = PositionsOf(objs, component_history[history_index + 2])]_vars

\* C27: history_index stays between -1 and the index of the last snapshot;
\* a drag's _add_to_history keeps the snapshots up to history_index, appends
\* the new one and leaves history_index at the last entry; undo moves the
\* index down by one and never below 0, redo up by one and never past the
\* last entry.
C27_HistoryIndexInRange ==
    /\ [](-1 <= history_index /\ history_index <= Len(component_history) - 1)
    /\ [][(objs' # objs \/ Len(component_history') # Len(component_history)) =>
            /\ component_history'
                  = Append(SubSeq(component_history, 1, history_index + 1),
                           self_components)
            /\ history_index' = Len(component_history') - 1]_vars
    /\ [][history_index' < history_index =>
            /\ history_index' = history_index - 1
            /\ history_index' >= 0
            /\ component_history' = component_history]_vars
    /\ [][(history_index' > history_index /\ objs' = objs
              /\ Len(component_history') = Len(component_history)) =>
            /\ history_index' = history_index + 1
            /\ history_index' <= Len(component_history) - 1
            /\ component_history' = component_history]_vars

\* after drags and two undos the index stands at the first of three
\* snapshots: the next drag discards two snapshots, a redo moves up
C27_Witness ==
    /\ Len(component_history) = MaxHistory
    /\ history_index = 0
    /\ pre_objs # objs

====
